---- MODULE Spec2Model ----
(***************************************************************************)
(* The join-application submission flow of components/global/join-form.tsx *)
(* (JoinForm): the react-hook-form state, the reCAPTCHA widget, the two    *)
(* React state cells isSubmitting and submitStatus, and every invocation   *)
(* of form.handleSubmit(onSubmit) with the position it has reached among   *)
(* its awaits (resolver, fetch, response.json(), logActivity).             *)
(***************************************************************************)
EXTENDS Naturals, Sequences, FiniteSets, Bags, TLC

VARIABLES
  formValues,    \* form.getValues(): the thirteen fields of FormData
  errors,        \* form.formState.errors: the names of the fields in error
  isSubmitting,  \* useState(false)
  submitStatus,  \* useState({type: null, message: ""})
  widgetToken,   \* recaptchaRef.current.getValue(); "" stands for null
  calls,         \* the invocations of handleSubmit(onSubmit) that have not returned
  submits,       \* the number of submit events so far
  location       \* window.location.href

vars ==
  <<formValues, errors, isSubmitting, submitStatus, widgetToken, calls, submits, location>>

----------------------------------------------------------------------------
(* Bounds of the model. *)

\* submit events dispatched to the form over one run
MaxSubmits == 2

----------------------------------------------------------------------------
(* Constants of the program. *)

departments ==
  << "Computer Science and Engineering",
     "Robotics and Automation",
     "Electronics and Communication Engineering",
     "Electrical Engineering",
     "Mechanical Engineering",
     "Civil Engineering",
     "Other" >>

tracks == << "Coding & Development", "Postgraduate Prep", "Hardware & IoT" >>

MinName == 2
MinPhone == 10
MinBatch == 4
MinRequired == 1
MinWhyJoin == 50

defaultValues ==
  [ name |-> "", email |-> <<>>, phone |-> "", batch |-> "",
    rollNumber |-> "", registrationNumber |-> "", department |-> "",
    interestedTracks |-> <<>>, whyJoin |-> "", experience |-> "",
    projects |-> "", otherRemarks |-> "", recaptchaToken |-> "" ]

MsgCaptcha == "Please complete the reCAPTCHA verification."
MsgSubmitted == "Application submitted successfully!"
MsgFailed == "Failed to submit application. Please try again."
MsgNetwork == "Network error. Please check your connection and try again."

JoinPage == "/join"

NoStatus == [type |-> "null", message |-> ""]

----------------------------------------------------------------------------
(* formSchema: the names of the fields that fail their constraint.  An     *)
(* email is a sequence of characters so that its shape can be inspected.   *)

IsEmail(e) ==
  \E i \in 2..Len(e) :
    /\ e[i] = "@"
    /\ \A j \in 1..Len(e) : e[j] = "@" => j = i
    /\ \E k \in (i + 2)..(Len(e) - 1) : e[k] = "."

\* formSchema with whyJoin only required, whatever its length
formSchemaWhyJoinNonEmpty(values) ==
  {f \in {"name"} : Len(values.name) < MinName}
    \cup {f \in {"email"} : ~IsEmail(values.email)}
    \cup {f \in {"phone"} : Len(values.phone) < MinPhone}
    \cup {f \in {"batch"} : Len(values.batch) < MinBatch}
    \cup {f \in {"rollNumber"} : Len(values.rollNumber) < MinRequired}
    \cup {f \in {"registrationNumber"} : Len(values.registrationNumber) < MinRequired}
    \cup {f \in {"department"} : Len(values.department) < MinRequired}
    \cup {f \in {"interestedTracks"} : Len(values.interestedTracks) < MinRequired}
    \cup {f \in {"whyJoin"} : Len(values.whyJoin) < MinRequired}
    \cup {f \in {"recaptchaToken"} : Len(values.recaptchaToken) < MinRequired}

\* formSchema without the constraint on rollNumber
formSchemaRollNumberOptional(values) ==
  {f \in {"name"} : Len(values.name) < MinName}
    \cup {f \in {"email"} : ~IsEmail(values.email)}
    \cup {f \in {"phone"} : Len(values.phone) < MinPhone}
    \cup {f \in {"batch"} : Len(values.batch) < MinBatch}
    \cup {f \in {"registrationNumber"} : Len(values.registrationNumber) < MinRequired}
    \cup {f \in {"department"} : Len(values.department) < MinRequired}
    \cup {f \in {"interestedTracks"} : Len(values.interestedTracks) < MinRequired}
    \cup {f \in {"whyJoin"} : Len(values.whyJoin) < MinWhyJoin}
    \cup {f \in {"recaptchaToken"} : Len(values.recaptchaToken) < MinRequired}

formSchema(values) ==
  {f \in {"name"} : Len(values.name) < MinName}
    \cup {f \in {"email"} : ~IsEmail(values.email)}
    \cup {f \in {"phone"} : Len(values.phone) < MinPhone}
    \cup {f \in {"batch"} : Len(values.batch) < MinBatch}
    \cup {f \in {"rollNumber"} : Len(values.rollNumber) < MinRequired}
    \cup {f \in {"registrationNumber"} : Len(values.registrationNumber) < MinRequired}
    \cup {f \in {"department"} : Len(values.department) < MinRequired}
    \cup {f \in {"interestedTracks"} : Len(values.interestedTracks) < MinRequired}
    \cup {f \in {"whyJoin"} : Len(values.whyJoin) < MinWhyJoin}
    \cup {f \in {"recaptchaToken"} : Len(values.recaptchaToken) < MinRequired}

----------------------------------------------------------------------------
(* What the environment supplies: what the user types, the tokens the      *)
(* widget hands out, the responses of /api/join.                           *)

Why49 == "I want to learn and to build things with my peers"
Why50 == "I want to learn and to build things with my peers."

Filled ==
  [ name |-> "Al", email |-> <<"a", "@", "b", ".", "c">>, phone |-> "9876543210",
    batch |-> "2024", rollNumber |-> "7", registrationNumber |-> "R",
    department |-> departments[1], interestedTracks |-> <<tracks[1]>>,
    whyJoin |-> Why50, experience |-> "", projects |-> "",
    otherRemarks |-> "", recaptchaToken |-> "" ]

RequiredFields ==
  { "name", "email", "phone", "batch", "rollNumber", "registrationNumber",
    "department", "interestedTracks", "whyJoin" }

OptionalFields == { "experience", "projects", "otherRemarks" }

UserFields == RequiredFields \cup OptionalFields

\* the form as the user may have left it: blank, complete, complete with the
\* optional fields, one required field blank, or one field too short/malformed
UserInputs ==
  { defaultValues, Filled,
    [Filled EXCEPT !.experience = "web", !.projects = "bot", !.otherRemarks = "hi"],
    [Filled EXCEPT !.name = "A"],
    [Filled EXCEPT !.email = <<"a", "@", "b">>],
    [Filled EXCEPT !.whyJoin = Why49] }
    \cup { [Filled EXCEPT ![f] = defaultValues[f]] : f \in RequiredFields }

\* the inputs of a user who fills the form in one go
TypicalInputs ==
  { Filled,
    [Filled EXCEPT !.experience = "web", !.projects = "bot", !.otherRemarks = "hi"],
    [Filled EXCEPT !.whyJoin = Why49] }

Tokens == { "tokA", "tokB" }

Statuses == { 200, 303, 429 }

\* the payloads of /api/join: a full one, an empty object, one with a redirect
Payloads ==
  { [message |-> "Server message", applicationId |-> "X", redirect |-> ""],
    [message |-> "", applicationId |-> "", redirect |-> ""],
    [message |-> "Server message", applicationId |-> "", redirect |-> "/blocked"] }

NoData == [message |-> "", applicationId |-> "", redirect |-> ""]

\* a || b on strings, undefined and "" both falsy
OrElse(a, b) == IF a # "" THEN a ELSE b

ResponseOk(status) == status >= 200 /\ status <= 299

----------------------------------------------------------------------------
(* One invocation of handleSubmit(onSubmit): where it stands (pc), the     *)
(* values it was given, the request body it sent, the response it got, the *)
(* number of fetch calls it made and the logActivity calls it made.  A     *)
(* local is kept while onSubmit can still read it: values up to the       *)
(* building of submissionData, the body while the request is out.  The    *)
(* invocations that have not returned form a bag: two of them may be in    *)
(* the same position with the same locals.                                 *)

\* a local that is not set yet or not read any more
NoValues == defaultValues

NewCall(values) ==
  [ pc |-> "validating", values |-> values, body |-> NoValues, status |-> 0,
    data |-> NoData, fetches |-> 0, logs |-> <<>> ]

LogEntry(event, applicationId, errorType, statusCode, error) ==
  [ event |-> event, applicationId |-> applicationId, error_type |-> errorType,
    status_code |-> statusCode, error |-> error ]

Running == BagToSet(calls)

\* the invocation c moves on to c2
Continue(c, c2) == calls' = (calls (-) SetToBag({c})) (+) SetToBag({c2})

\* the invocation c returns (or rejects)
Return(c) == calls' = calls (-) SetToBag({c})

Loaded == location = JoinPage

Init ==
  /\ formValues = defaultValues
  /\ errors = {}
  /\ isSubmitting = FALSE
  /\ submitStatus = NoStatus
  /\ widgetToken = ""
  /\ calls = EmptyBag
  /\ submits = 0
  /\ location = JoinPage

----------------------------------------------------------------------------
(* User and widget events. *)

\* the user edits the inputs bound with {...field}
FillForm(v) ==
  /\ Loaded
  /\ formValues' = [v EXCEPT !.recaptchaToken = formValues.recaptchaToken]
  /\ formValues' # formValues
  /\ UNCHANGED <<errors, isSubmitting, submitStatus, widgetToken, calls, submits, location>>

\* onChange={(token) => form.setValue("recaptchaToken", token || "")}
onChange(token) == [formValues EXCEPT !.recaptchaToken = OrElse(token, "")]

\* the user solves the challenge: the widget holds t and calls onChange(t)
ChallengeSolved(t) ==
  /\ Loaded
  /\ widgetToken = ""
  /\ widgetToken' = t
  /\ formValues' = onChange(t)
  /\ UNCHANGED <<errors, isSubmitting, submitStatus, calls, submits, location>>

\* the token expires: no onExpired prop, so the widget calls onChange(null)
ChallengeExpired ==
  /\ Loaded
  /\ widgetToken # ""
  /\ widgetToken' = ""
  /\ formValues' = onChange("")
  /\ UNCHANGED <<errors, isSubmitting, submitStatus, calls, submits, location>>

\* the elements of a list
Range(list) == {list[i] : i \in 1..Len(list)}

\* field.value?.includes(track)
Includes(value, track) == track \in Range(value)

\* the department the user picks: the last of the list
DepartmentsTried == {departments[Len(departments)]}

\* the user types into the text inputs; the Select and the checkboxes are
\* left alone
FillText(v) ==
  /\ Loaded
  /\ formValues' = [v EXCEPT !.department = formValues.department,
                             !.interestedTracks = formValues.interestedTracks,
                             !.recaptchaToken = formValues.recaptchaToken]
  /\ formValues' # formValues
  /\ UNCHANGED <<errors, isSubmitting, submitStatus, widgetToken, calls, submits, location>>

\* <Select onValueChange={field.onChange}>: the user picks a SelectItem
SelectDepartment(dept) ==
  /\ Loaded
  /\ dept \in Range(departments)
  /\ formValues.department # dept
  /\ formValues' = [formValues EXCEPT !.department = dept]
  /\ UNCHANGED <<errors, isSubmitting, submitStatus, widgetToken, calls, submits, location>>

\* an onCheckedChange that adds the track whatever checked is
onCheckedChangeAppend(value, track, checked) == Append(value, track)

\* onCheckedChange: the value handed to field.onChange
onCheckedChange(value, track, checked) ==
  IF checked THEN Append(value, track)
  ELSE SelectSeq(value, LAMBDA v : v # track)

\* the user clicks the checkbox of a track: the box, shown checked when the
\* value includes the track, reports the opposite state
ToggleTrack(track) ==
  /\ Loaded
  /\ formValues' =
       [formValues EXCEPT !.interestedTracks =
          onCheckedChange(formValues.interestedTracks, track,
                          ~Includes(formValues.interestedTracks, track))]
  /\ UNCHANGED <<errors, isSubmitting, submitStatus, widgetToken, calls, submits, location>>

\* recaptchaRef.current?.reset(): the widget's value afterwards (onChange is
\* not called, so the form's recaptchaToken field keeps what it had)
RecaptchaReset(token) == ""

\* form.reset(): the values afterwards
FormReset(values) == defaultValues

----------------------------------------------------------------------------
(* form.handleSubmit(onSubmit). *)

\* <Button type="submit" disabled={isSubmitting}>
SubmitDisabled == isSubmitting

\* a submit event: handleSubmit hands the current values to the resolver
SubmitEvent ==
  /\ Loaded
  /\ ~SubmitDisabled
  /\ submits < MaxSubmits
  /\ submits' = submits + 1
  /\ calls' = calls (+) SetToBag({NewCall(formValues)})
  /\ UNCHANGED <<formValues, errors, isSubmitting, submitStatus, widgetToken, location>>

\* the resolver reports errors: they are shown inline, onSubmit is not called
ValidationFails(c) ==
  /\ Loaded
  /\ c.pc = "validating"
  /\ formSchema(c.values) # {}
  /\ errors' = formSchema(c.values)
  /\ Return(c)
  /\ UNCHANGED <<formValues, isSubmitting, submitStatus, widgetToken, submits, location>>

----------------------------------------------------------------------------
(* onSubmit, from its entry to the first await. *)

\* onSubmit without its check of the token
TokenMissingUnchecked(token) == FALSE

\* if (!token)
TokenMissing(token) == token = ""

\* const submissionData = {...values, recaptchaToken: token}
submissionData(values, token) == [values EXCEPT !.recaptchaToken = token]

\* the resolver passes, onSubmit finds no token in the widget and returns
onSubmitNoToken(c) ==
  /\ Loaded
  /\ c.pc = "validating"
  /\ formSchema(c.values) = {}
  /\ TokenMissing(widgetToken)
  /\ errors' = {}
  /\ submitStatus' = [type |-> "error", message |-> MsgCaptcha]
  /\ isSubmitting' = FALSE
  /\ Return(c)
  /\ UNCHANGED <<formValues, widgetToken, submits, location>>

\* the resolver passes, onSubmit reads the token and calls fetch
onSubmitFetch(c) ==
  /\ Loaded
  /\ c.pc = "validating"
  /\ formSchema(c.values) = {}
  /\ ~TokenMissing(widgetToken)
  /\ errors' = {}
  /\ isSubmitting' = TRUE
  /\ submitStatus' = NoStatus
  /\ Continue(c, [c EXCEPT !.pc = "fetch", !.values = NoValues,
                           !.body = submissionData(c.values, widgetToken),
                           !.fetches = c.fetches + 1])
  /\ UNCHANGED <<formValues, widgetToken, submits, location>>

----------------------------------------------------------------------------
(* onSubmit, after the awaits. *)

\* a catch block that sends the request again
CatchRetry(c, err) ==
  /\ submitStatus' = [type |-> "error", message |-> MsgNetwork]
  /\ Continue(c, [c EXCEPT !.pc = "fetch", !.fetches = c.fetches + 1])
  /\ UNCHANGED <<formValues, errors, isSubmitting, widgetToken, submits, location>>

\* catch (err): the banner, then await logActivity("join_form_error", ...)
Catch(c, err) ==
  /\ submitStatus' = [type |-> "error", message |-> MsgNetwork]
  /\ Continue(c, [c EXCEPT !.pc = "logCatch", !.body = NoValues,
                           !.logs = Append(c.logs, LogEntry("join_form_error", "",
                                                            "network_error", 0, err))])
  /\ UNCHANGED <<formValues, errors, isSubmitting, widgetToken, submits, location>>

\* fetch resolves with a response
FetchResolves(c, status) ==
  /\ Loaded
  /\ c.pc = "fetch"
  /\ Continue(c, [c EXCEPT !.pc = "json", !.body = NoValues, !.status = status])
  /\ UNCHANGED <<formValues, errors, isSubmitting, submitStatus, widgetToken,
                 submits, location>>

\* fetch rejects: no response
FetchRejects(c) ==
  /\ Loaded
  /\ c.pc = "fetch"
  /\ Catch(c, "Failed to fetch")

\* response.json() rejects: the body is no JSON
JsonRejects(c) ==
  /\ Loaded
  /\ c.pc = "json"
  /\ Catch(c, "Unexpected end of JSON input")

\* the branch onSubmit takes on a response
Interpret(status, data) ==
  IF ResponseOk(status) THEN "success"
  ELSE IF status = 303 /\ data.redirect # "" THEN "blocked"
  ELSE "error"

\* response.ok
JsonSuccess(c, data) ==
  /\ Loaded
  /\ c.pc = "json"
  /\ Interpret(c.status, data) = "success"
  /\ submitStatus' = [type |-> "success", message |-> OrElse(data.message, MsgSubmitted)]
  /\ Continue(c, [c EXCEPT !.pc = "logSuccess", !.data = data,
                           !.logs = Append(c.logs, LogEntry("join_form_success",
                                                            data.applicationId, "", 0, ""))])
  /\ UNCHANGED <<formValues, errors, isSubmitting, widgetToken, submits, location>>

\* response.status === 303 && data.redirect
JsonBlocked(c, data) ==
  /\ Loaded
  /\ c.pc = "json"
  /\ Interpret(c.status, data) = "blocked"
  /\ Continue(c, [c EXCEPT !.pc = "logBlocked", !.data = data,
                           !.logs = Append(c.logs, LogEntry("join_form_blocked", "",
                                                            "blocked_ip", 0, ""))])
  /\ UNCHANGED <<formValues, errors, isSubmitting, submitStatus, widgetToken,
                 submits, location>>

\* any other response
JsonError(c, data) ==
  /\ Loaded
  /\ c.pc = "json"
  /\ Interpret(c.status, data) = "error"
  /\ submitStatus' = [type |-> "error", message |-> OrElse(data.message, MsgFailed)]
  /\ Continue(c, [c EXCEPT !.pc = "logError", !.data = data,
                           !.logs = Append(c.logs, LogEntry("join_form_error", "",
                                                            "validation_or_server_error",
                                                            c.status, ""))])
  /\ UNCHANGED <<formValues, errors, isSubmitting, widgetToken, submits, location>>

\* logActivity("join_form_success") resolves: form.reset(), widget reset, finally
LogSuccessResolves(c) ==
  /\ Loaded
  /\ c.pc = "logSuccess"
  /\ formValues' = FormReset(formValues)
  /\ errors' = {}
  /\ widgetToken' = RecaptchaReset(widgetToken)
  /\ isSubmitting' = FALSE
  /\ Return(c)
  /\ UNCHANGED <<submitStatus, submits, location>>

\* logActivity("join_form_blocked") resolves: navigation, return, finally
LogBlockedResolves(c) ==
  /\ Loaded
  /\ c.pc = "logBlocked"
  /\ location' = c.data.redirect
  /\ isSubmitting' = FALSE
  /\ Return(c)
  /\ UNCHANGED <<formValues, errors, submitStatus, widgetToken, submits>>

\* logActivity("join_form_error") resolves in the else branch or in the catch
\* block: widget reset, finally
LogErrorResolves(c) ==
  /\ Loaded
  /\ c.pc \in {"logError", "logCatch"}
  /\ widgetToken' = RecaptchaReset(widgetToken)
  /\ isSubmitting' = FALSE
  /\ Return(c)
  /\ UNCHANGED <<formValues, errors, submitStatus, submits, location>>

\* logActivity rejects inside the try block: the catch block runs
LogRejects(c) ==
  /\ Loaded
  /\ c.pc \in {"logSuccess", "logBlocked", "logError"}
  /\ Catch(c, "log failed")

\* a rejection inside the catch block that skips the finally block
LogRejectsInCatchNoFinally(c) ==
  /\ Loaded
  /\ c.pc = "logCatch"
  /\ Return(c)
  /\ UNCHANGED <<formValues, errors, isSubmitting, submitStatus, widgetToken,
                 submits, location>>

\* logActivity rejects inside the catch block: finally, onSubmit rejects
LogRejectsInCatch(c) ==
  /\ Loaded
  /\ c.pc = "logCatch"
  /\ isSubmitting' = FALSE
  /\ Return(c)
  /\ UNCHANGED <<formValues, errors, submitStatus, widgetToken, submits, location>>

----------------------------------------------------------------------------

Next ==
  \/ \E v \in TypicalInputs : FillForm(v)
  \/ \E t \in Tokens : ChallengeSolved(t)
  \/ ChallengeExpired
  \/ SubmitEvent
  \/ \E c \in Running : ValidationFails(c)
  \/ \E c \in Running : onSubmitNoToken(c)
  \/ \E c \in Running : onSubmitFetch(c)
  \/ \E c \in Running, status \in Statuses : FetchResolves(c, status)
  \/ \E c \in Running : FetchRejects(c)
  \/ \E c \in Running : JsonRejects(c)
  \/ \E c \in Running, data \in Payloads : JsonSuccess(c, data)
  \/ \E c \in Running, data \in Payloads : JsonBlocked(c, data)
  \/ \E c \in Running, data \in Payloads : JsonError(c, data)
  \/ \E c \in Running : LogSuccessResolves(c)
  \/ \E c \in Running : LogBlockedResolves(c)
  \/ \E c \in Running : LogErrorResolves(c)
  \/ \E c \in Running : LogRejects(c)
  \/ \E c \in Running : LogRejectsInCatch(c)

Spec == Init /\ [][Next]_vars

\* the same form used by a user who fills in anything of UserInputs and
\* submits again only once the previous invocation has returned
SubmitWhenIdle == calls = EmptyBag /\ SubmitEvent

NextForm ==
  \/ \E v \in UserInputs : FillForm(v)
  \/ \E t \in Tokens : ChallengeSolved(t)
  \/ ChallengeExpired
  \/ SubmitWhenIdle
  \/ \E c \in Running : ValidationFails(c)
  \/ \E c \in Running : onSubmitNoToken(c)
  \/ \E c \in Running : onSubmitFetch(c)
  \/ \E c \in Running, status \in Statuses : FetchResolves(c, status)
  \/ \E c \in Running : FetchRejects(c)
  \/ \E c \in Running : JsonRejects(c)
  \/ \E c \in Running, data \in Payloads : JsonSuccess(c, data)
  \/ \E c \in Running, data \in Payloads : JsonBlocked(c, data)
  \/ \E c \in Running, data \in Payloads : JsonError(c, data)
  \/ \E c \in Running : LogSuccessResolves(c)
  \/ \E c \in Running : LogBlockedResolves(c)
  \/ \E c \in Running : LogErrorResolves(c)
  \/ \E c \in Running : LogRejects(c)
  \/ \E c \in Running : LogRejectsInCatch(c)

SpecForm == Init /\ [][NextForm]_vars

----------------------------------------------------------------------------
(* The awaits of onSubmit settle: the promise of fetch, that of            *)
(* response.json() and that of logActivity each resolve or reject.         *)

\* await fetch("/api/join", ...) settles
FetchSettles ==
  \E c \in Running :
    \/ \E status \in Statuses : FetchResolves(c, status)
    \/ FetchRejects(c)

\* await response.json() settles
JsonSettles ==
  \E c \in Running :
    \/ \E data \in Payloads : JsonSuccess(c, data) \/ JsonBlocked(c, data) \/ JsonError(c, data)
    \/ JsonRejects(c)

\* await logActivity(...) settles
LogSettles ==
  \E c \in Running :
    \/ LogSuccessResolves(c) \/ LogBlockedResolves(c) \/ LogErrorResolves(c)
    \/ LogRejects(c) \/ LogRejectsInCatch(c)

\* the form filled in completely, submitted at any time, its awaits settling
NextLive ==
  \/ FillForm(Filled)
  \/ \E t \in Tokens : ChallengeSolved(t)
  \/ ChallengeExpired
  \/ SubmitEvent
  \/ \E c \in Running : ValidationFails(c)
  \/ \E c \in Running : onSubmitNoToken(c)
  \/ \E c \in Running : onSubmitFetch(c)
  \/ \E c \in Running, status \in Statuses : FetchResolves(c, status)
  \/ \E c \in Running : FetchRejects(c)
  \/ \E c \in Running : JsonRejects(c)
  \/ \E c \in Running, data \in Payloads : JsonSuccess(c, data)
  \/ \E c \in Running, data \in Payloads : JsonBlocked(c, data)
  \/ \E c \in Running, data \in Payloads : JsonError(c, data)
  \/ \E c \in Running : LogSuccessResolves(c)
  \/ \E c \in Running : LogBlockedResolves(c)
  \/ \E c \in Running : LogErrorResolves(c)
  \/ \E c \in Running : LogRejects(c)
  \/ \E c \in Running : LogRejectsInCatch(c)

SpecLive ==
  /\ Init
  /\ [][NextLive]_vars
  /\ WF_vars(FetchSettles)
  /\ WF_vars(JsonSettles)
  /\ WF_vars(LogSettles)

\* the form filled in field by field: text typed, a department picked, the
\* track checkboxes clicked any number of times
NextTracks ==
  \/ FillText(Filled)
  \/ \E dept \in DepartmentsTried : SelectDepartment(dept)
  \/ \E track \in Range(tracks) : ToggleTrack(track)
  \/ \E t \in Tokens : ChallengeSolved(t)
  \/ ChallengeExpired
  \/ SubmitWhenIdle
  \/ \E c \in Running : ValidationFails(c)
  \/ \E c \in Running : onSubmitNoToken(c)
  \/ \E c \in Running : onSubmitFetch(c)
  \/ \E c \in Running, status \in Statuses : FetchResolves(c, status)
  \/ \E c \in Running : FetchRejects(c)
  \/ \E c \in Running : JsonRejects(c)
  \/ \E c \in Running, data \in Payloads : JsonSuccess(c, data)
  \/ \E c \in Running, data \in Payloads : JsonBlocked(c, data)
  \/ \E c \in Running, data \in Payloads : JsonError(c, data)
  \/ \E c \in Running : LogSuccessResolves(c)
  \/ \E c \in Running : LogBlockedResolves(c)
  \/ \E c \in Running : LogErrorResolves(c)
  \/ \E c \in Running : LogRejects(c)
  \/ \E c \in Running : LogRejectsInCatch(c)

SpecTracks == Init /\ [][NextTracks]_vars

----------------------------------------------------------------------------
(* Vocabulary of the properties. *)

\* the requests to /api/join that are out
InFlight == {c \in Running : c.pc = "fetch"}

RequestsInFlight == BagCardinality([c \in InFlight |-> CopiesIn(c, calls)])

\* in this step the invocation c moves on or returns
Leaves(c) == CopiesIn(c, calls') < CopiesIn(c, calls)

\* the required fields that values leaves at their default
BlankFields(values) == {f \in RequiredFields : values[f] = defaultValues[f]}

\* this step leaves what the user entered as it is
UserFieldsKept == \A f \in UserFields : formValues'[f] = formValues[f]

Banner(type, message) == [type |-> type, message |-> message]

----------------------------------------------------------------------------
(* C1: at most one request to /api/join is in flight at any time.          *)

C1_AtMostOneInFlight == RequestsInFlight <= 1

(* C2: when logActivity rejects, the controller makes the very transition  *)
(* it makes when logActivity resolves.                                     *)

C2_LoggingNeverChangesTransition ==
  [][\A c \in Running :
       /\ LogRejects(c) =>
            LogSuccessResolves(c) \/ LogBlockedResolves(c) \/ LogErrorResolves(c)
       /\ LogRejectsInCatch(c) => LogErrorResolves(c)]_vars

(* C3: a submission with a required field left empty never reaches fetch:  *)
(* no request that is out has a blank required field, and the invocation   *)
(* given such values returns at validation with every blank field reported *)
(* in formState.errors and the banner untouched.                           *)

C3_BlankFieldNeverSent ==
  /\ [](\A c \in InFlight : BlankFields(c.body) = {})
  /\ [][\A c \in Running :
          (c.pc = "validating" /\ BlankFields(c.values) # {} /\ Leaves(c)) =>
            /\ Return(c)
            /\ BlankFields(c.values) \subseteq errors'
            /\ UNCHANGED <<submitStatus, isSubmitting>>]_vars

\* the form was complete but for the roll number, and that was reported
C3_Witness == errors = {"rollNumber"} /\ calls = EmptyBag /\ submits = 1

(* C4: a submission without a verification token is blocked: every request *)
(* that is out carries a non-empty token; an invocation that was given a    *)
(* form without a token, or finds the widget without one, returns without   *)
(* calling fetch; the first reports the inline recaptchaToken error, and    *)
(* the second, when its values pass the schema, the reCAPTCHA banner,       *)
(* whatever the form's recaptchaToken field still holds.                    *)

C5_TokenClearedAfterNonSuccess ==
  [][\A c \in Running :
       (Return(c) /\ c.pc # "logSuccess") =>
         (widgetToken' = "" /\ formValues'.recaptchaToken = "")]_vars

(* C6: on a 2xx response with message and applicationId, the invocation     *)
(* returns with the server's message in a success banner, every field at    *)
(* its default, the widget without a token, and join_form_success logged    *)
(* with that applicationId.                                                 *)

C6_SuccessResponse ==
  [][\A c \in Running :
       ( /\ Return(c)
         /\ ResponseOk(c.status)
         /\ c.data.message # ""
         /\ c.data.applicationId # "" ) =>
         /\ submitStatus' = Banner("success", c.data.message)
         /\ formValues' = defaultValues
         /\ widgetToken' = ""
         /\ c.logs = <<LogEntry("join_form_success", c.data.applicationId, "", 0, "")>>]_vars

(* C7: on a response that is neither 2xx nor 303 and carries a message,     *)
(* the invocation returns with that message in an error banner, the widget  *)
(* without a token and every field the user entered as it was.              *)

C7_ServerRejection ==
  [][\A c \in Running :
       ( /\ Return(c)
         /\ c.status # 0
         /\ ~ResponseOk(c.status)
         /\ c.status # 303
         /\ c.data.message # "" ) =>
         /\ submitStatus' = Banner("error", c.data.message)
         /\ widgetToken' = ""
         /\ UserFieldsKept]_vars

(* C8: on a 303 response with a redirect target, the invocation returns     *)
(* with the page navigated to that target, no form field changed and no     *)
(* banner set.                                                              *)

C8_BlockedRedirect ==
  [][\A c \in Running :
       (Return(c) /\ c.status = 303 /\ c.data.redirect # "") =>
         /\ location' = c.data.redirect
         /\ formValues' = formValues
         /\ submitStatus' = NoStatus]_vars

(* C9: when fetch rejects, the invocation returns with the connectivity     *)
(* message in an error banner, the widget without a token, every field the  *)
(* user entered as it was, and the submit button enabled.                   *)

C9_NetworkFailure ==
  [][\A c \in Running :
       (Return(c) /\ c.pc = "logCatch" /\ c.status = 0) =>
         /\ submitStatus' = Banner("error", MsgNetwork)
         /\ widgetToken' = ""
         /\ UserFieldsKept
         /\ ~SubmitDisabled']_vars

(* C10: an invocation that passes validation and finds a token has called   *)
(* fetch exactly once, at every point up to its return and whatever the     *)
(* outcome of the request; one that has not passed has called it never.     *)

C10_ExactlyOneRequest ==
  \A c \in Running : c.fetches = IF c.pc = "validating" THEN 0 ELSE 1

\* fetch rejected, the catch block ran, and there was no second request
C10_Witness ==
  \E c \in Running : c.pc = "logCatch" /\ c.status = 0 /\ c.fetches = 1

(* C11: every invocation that returns, at validation, at the token check    *)
(* or after a response or a network failure, has made exactly one           *)
(* logActivity call.                                                        *)

C11_OneLogCallPerAttempt ==
  [][\A c \in Running : Return(c) => Len(c.logs) = 1]_vars

(* C12: each kind of error has its channel.  A validation failure and a     *)
(* missing token are reported inline, in formState.errors, and leave the    *)
(* banner as it is; a server rejection and a network failure set the error  *)
(* banner; a blocked client is redirected and no banner is set.  The        *)
(* reCAPTCHA message is never in the banner.                                *)

C12_DesignatedChannel ==
  /\ [](submitStatus.message # MsgCaptcha)
  /\ [][\A c \in Running :
          /\ ValidationFails(c) => errors' # {} /\ UNCHANGED submitStatus
          /\ onSubmitNoToken(c) => "recaptchaToken" \in errors' /\ UNCHANGED submitStatus
          /\ (\E data \in Payloads : JsonError(c, data)) => submitStatus'.type = "error"
          /\ FetchRejects(c) => submitStatus'.type = "error"
          /\ (\E data \in Payloads : JsonBlocked(c, data)) => UNCHANGED submitStatus
          /\ LogBlockedResolves(c) => UNCHANGED submitStatus]_vars

(* C13: no request that is out has a whyJoin shorter than 50 characters,    *)
(* and an invocation given such a whyJoin returns at validation with        *)
(* whyJoin reported in formState.errors, whatever the other fields and the  *)
(* token are.                                                               *)

C13_ShortWhyJoinNeverSent ==
  /\ [](\A c \in InFlight : Len(c.body.whyJoin) >= MinWhyJoin)
  /\ [][\A c \in Running :
          (c.pc = "validating" /\ Len(c.values.whyJoin) < MinWhyJoin /\ Leaves(c)) =>
            /\ Return(c)
            /\ "whyJoin" \in errors'
            /\ UNCHANGED <<submitStatus, isSubmitting>>]_vars

\* a form valid but for its 49 characters of whyJoin, with a token in the
\* form and in the widget, was submitted and stopped at validation
C13_Witness ==
  /\ errors = {"whyJoin"}
  /\ Len(formValues.whyJoin) = MinWhyJoin - 1
  /\ formValues.recaptchaToken # ""
  /\ widgetToken # ""
  /\ calls = EmptyBag
  /\ submits = 1

(* C14: a response that was received is never reported as a network        *)
(* failure: the catch block, with its "Network error" banner and its        *)
(* network_error log entry, runs only in an invocation that got no          *)
(* response; an invocation that got a 2xx response sets the success banner  *)
(* and one that got a status other than 2xx and 303 sets the error banner   *)
(* with the server's message or "Failed to submit", whatever the body is.   *)

C14_ResponseNeverNetworkFailure ==
  /\ [](\A c \in Running : c.pc = "logCatch" => c.status = 0)
  /\ [][\A c \in Running :
          (c.pc = "json" /\ Leaves(c)) =>
            /\ ResponseOk(c.status) => submitStatus'.type = "success"
            /\ (~ResponseOk(c.status) /\ c.status # 303) =>
                 /\ submitStatus'.type = "error"
                 /\ submitStatus'.message # MsgNetwork]_vars

(* C15: a received response has exactly one interpretation.  An invocation  *)
(* that got a 2xx response returns with the success banner and the page     *)
(* where it was, also when the payload carries a redirect; the page is      *)
(* left only after a 303 response with a redirect target; after a 303       *)
(* response without one the invocation returns with the server's message    *)
(* or "Failed to submit" in the error banner, the widget without a token    *)
(* and the page where it was.                                               *)

C15_ResponseInterpretation ==
  [][\A c \in Running :
       (Return(c) /\ c.status # 0) =>
         /\ Interpret(c.status, c.data) \in {"success", "blocked", "error"}
         /\ ResponseOk(c.status) =>
              submitStatus'.type = "success" /\ location' = location
         /\ location' # location => c.status = 303 /\ c.data.redirect # ""
         /\ (c.status = 303 /\ c.data.redirect # "") => location' = c.data.redirect
         /\ (c.status = 303 /\ c.data.redirect = "") =>
              /\ submitStatus' = Banner("error", OrElse(c.data.message, MsgFailed))
              /\ widgetToken' = ""
              /\ location' = location]_vars

(* C16: when the awaits of onSubmit settle, isSubmitting never stays true:  *)
(* whenever it is true it is false again later, whatever the outcome of     *)
(* the attempt.                                                             *)

C16_SubmittingEnds == isSubmitting ~> ~isSubmitting

\* an attempt went through fetch and the catch block, every invocation has
\* returned and the submit button is enabled again
C16_Witness ==
  /\ ~isSubmitting
  /\ calls = EmptyBag
  /\ submitStatus = Banner("error", MsgNetwork)

(* C17: while isSubmitting is true no banner is shown: submitStatus.type    *)
(* is null.                                                                 *)

C17_NoBannerWhileSubmitting == isSubmitting => submitStatus.type = "null"

(* C18: whatever departments are picked and track checkboxes clicked, the   *)
(* form's department is unset or one of departments and its                 *)
(* interestedTracks lists tracks of tracks, none twice; every request that  *)
(* is out carries one of departments and at least one track, all of tracks, *)
(* none twice.                                                              *)

NoDuplicates(list) == Cardinality(Range(list)) = Len(list)

C18_DepartmentAndTracksWellFormed ==
  /\ formValues.department \in {""} \cup Range(departments)
  /\ Range(formValues.interestedTracks) \subseteq Range(tracks)
  /\ NoDuplicates(formValues.interestedTracks)
  /\ \A c \in InFlight :
       /\ c.body.department \in Range(departments)
       /\ c.body.interestedTracks # <<>>
       /\ Range(c.body.interestedTracks) \subseteq Range(tracks)
       /\ NoDuplicates(c.body.interestedTracks)

\* a request is out with two tracks, checked in another order than the
\* list's, after a track was checked and unchecked again
C18_Witness ==
  /\ \E c \in InFlight :
       /\ c.body.interestedTracks = <<tracks[3], tracks[1]>>
       /\ c.body.department = departments[Len(departments)]
  /\ formValues.interestedTracks = <<tracks[3]>>

====
